---- MODULE Spec2Model ----
(***************************************************************************)
(* A model of two modules of the content server's front end:               *)
(*                                                                         *)
(*   - views/complete_sign_up.js: CompleteSignUpView, which completes an   *)
(*     email verification from the parameters of a verification link and  *)
(*     notifies the broker;                                                *)
(*   - FxDesktopV1Sender, which posts FirefoxAccountsCommand events.       *)
(*                                                                         *)
(* Every promise callback of the code is one action: the callbacks of a    *)
(* promise chain run in separate turns of the event loop, and the          *)
(* collaborators (user, broker, window) settle with any outcome.           *)
(***************************************************************************)
EXTENDS Naturals, Sequences, FiniteSets

VARIABLES
  pc,            \* position of the view in its beforeRender promise chain
  params,        \* the verification link's query parameters
  info,          \* this._verificationInfo: the expired/used/damaged marks
  modelType,     \* this.model.get('type')
  modelError,    \* this.model.get('error')
  account,       \* this._account
  email,         \* this._email, cached by initialize
  tokens,        \* emails whose account in the user registry holds a sessionToken
  tokenAtInit,   \* whether the cached email's account held a sessionToken at initialize
  err,           \* the rejection reason travelling down the promise chain
  trace,         \* calls made on the collaborators, in order
  logged,        \* errors passed to logError, in order
  handled,       \* calls of _handleVerificationErrors: the error and the state before
  outcome,       \* how each collaborator's promise settled
  returned,      \* what beforeRender returned synchronously
  rendered,      \* the template was rendered
  senderWindow,  \* FxDesktopV1Sender._window
  sends,         \* the calls of FxDesktopV1Sender.send and their promises
  windowEvents,  \* events dispatched on the windows, in order
  resends,       \* the calls of CompleteSignUpView.resend and their promises
  navigations    \* calls of this.navigate, in order

viewVars == <<pc, params, info, modelType, modelError, account, email, tokens,
              tokenAtInit, err, trace, logged, handled, outcome, returned, rendered>>
senderVars == <<senderWindow, sends, windowEvents>>
resendVars == <<resends, navigations>>
vars == <<pc, params, info, modelType, modelError, account, email, tokens,
          tokenAtInit, err, trace, logged, handled, outcome, returned, rendered,
          senderWindow, sends, windowEvents, resends, navigations>>

None == "none"

----------------------------------------------------------------------------
(* Errors.  An error carries the namespace of the module that created it.  *)

AuthError(name) == [namespace |-> "auth", name |-> name]
MarketingError(name) == [namespace |-> "basket", name |-> name]
TypeError == [namespace |-> "js", name |-> "TypeError"]

\* no error, and the ways a promise settles without one
NoError == [namespace |-> "none", name |-> "none"]
Pending == [namespace |-> "promise", name |-> "pending"]
Ok == [namespace |-> "promise", name |-> "ok"]
Halt == [namespace |-> "promise", name |-> "never settles"]

\* AuthErrors.toError(type)
toError(type) == AuthError(type)

\* AuthErrors.is(err, type)
AuthErrorsIs(e, type) == e.namespace = "auth" /\ e.name = type

\* MarketingEmailErrors.created(err)
MarketingEmailErrorsCreated(e) == e.namespace = "basket"

\* the failures a collaborator's promise can reject with
RemoteErrors ==
  { AuthError("UNKNOWN_ACCOUNT"), AuthError("INVALID_VERIFICATION_CODE"),
    AuthError("INVALID_PARAMETER"), AuthError("INVALID_TOKEN"),
    AuthError("UNEXPECTED_ERROR"), MarketingError("NETWORK_FAILURE") }

----------------------------------------------------------------------------
(* The verification reasons and the broker methods.                        *)

SIGN_UP == "signup"
SIGN_IN == "login"
SECONDARY_EMAIL_VERIFIED == "secondary_email_verified"

ReasonKeys == {"SIGN_UP", "SIGN_IN", "SECONDARY_EMAIL_VERIFIED"}

VerificationReasons ==
  [k \in ReasonKeys |->
     CASE k = "SIGN_UP" -> SIGN_UP
       [] k = "SIGN_IN" -> SIGN_IN
       [] k = "SECONDARY_EMAIL_VERIFIED" -> SECONDARY_EMAIL_VERIFIED]

\* VerificationReasonMixin.keyOfVerificationReason
keyOfVerificationReason(reason) ==
  IF \E k \in ReasonKeys : VerificationReasons[k] = reason
    THEN CHOOSE k \in ReasonKeys : VerificationReasons[k] = reason
    ELSE "undefined"

\* VerificationReasonMixin.isSignIn, isSignUp: they read the view's model
isSignIn(mType) == mType = SIGN_IN
isSignUp(mType) == mType = SIGN_UP

\* as BROKER_METHODS, but a sign-in is completed like a sign-up
brokerMethodsSignInAsSignUp(key) ==
  CASE key = "SECONDARY_EMAIL_VERIFIED" -> "afterCompleteAddSecondaryEmail"
    [] key = "SIGN_IN" -> "afterCompleteSignUp"
    [] key = "SIGN_UP" -> "afterCompleteSignUp"
    [] OTHER -> "undefined"

BROKER_METHODS(key) ==
  CASE key = "SECONDARY_EMAIL_VERIFIED" -> "afterCompleteAddSecondaryEmail"
    [] key = "SIGN_IN" -> "afterCompleteSignIn"
    [] key = "SIGN_UP" -> "afterCompleteSignUp"
    [] OTHER -> "undefined"

\* _getBrokerMethod
getBrokerMethod(mType) == BROKER_METHODS(keyOfVerificationReason(mType))

----------------------------------------------------------------------------
(* The verification info built from the link's parameters.                 *)

Emails == {"a@a.com", "b@b.com"}

\* the shapes of a 'code' or 'uid' parameter
ParamShapes == {"valid", "malformed"}
\* the 'type' parameter of a link: absent, or naming a kind of verification
LinkTypes == {None, SIGN_UP, SIGN_IN, SECONDARY_EMAIL_VERIFIED}
\* the 'resume' parameter: absent, or a token that carries an email
ResumeTokens == {None, "b@b.com"}

\* VerificationInfo.isValid: the parameters validate and the link is not marked damaged
isValid(p, i) == p.code = "valid" /\ p.uid = "valid" /\ ~i.damaged
isExpired(i) == i.expired
isUsed(i) == i.used
markExpired(i) == [i EXCEPT !.expired = TRUE]
markUsed(i) == [i EXCEPT !.used = TRUE]
markDamaged(i) == [i EXCEPT !.damaged = TRUE]

NoMarks == [expired |-> FALSE, used |-> FALSE, damaged |-> FALSE]

\* account.populateFromStringifiedResumeToken
populateFromStringifiedResumeToken(a, resume) ==
  IF resume = None THEN a ELSE [a EXCEPT !.email = resume]

----------------------------------------------------------------------------
(* The pure parts of CompleteSignUpView.                                   *)

\* as _logAndAbsorbMarketingClientErrors, but every error is thrown again
rethrowEveryError(e) == FALSE

\* as _logAndAbsorbMarketingClientErrors, but every error is swallowed
absorbEveryError(e) == TRUE

\* _logAndAbsorbMarketingClientErrors: TRUE when the error is logged and
\* swallowed, FALSE when it is thrown again
logAndAbsorbMarketingClientErrors(e) == MarketingEmailErrorsCreated(e)

\* as _handleVerificationErrors, but the original UNKNOWN_ACCOUNT error is logged
handleLoggingOriginalError(e, i, mType, mErr) ==
  IF AuthErrorsIs(e, "UNKNOWN_ACCOUNT")
    THEN [info |-> markExpired(i), modelError |-> mErr, log |-> e]
  ELSE IF AuthErrorsIs(e, "INVALID_VERIFICATION_CODE")
          \/ AuthErrorsIs(e, "INVALID_PARAMETER")
    THEN IF isSignIn(mType)
           THEN [info |-> markUsed(i), modelError |-> mErr,
                 log |-> toError("REUSED_SIGNIN_VERIFICATION_CODE")]
           ELSE [info |-> markDamaged(i), modelError |-> mErr,
                 log |-> toError("DAMAGED_VERIFICATION_LINK")]
  ELSE [info |-> i, modelError |-> e, log |-> e]

\* as _handleVerificationErrors, but the link counts as used unless the
\* verification is a sign-up
handleUsedUnlessSignUp(e, i, mType, mErr) ==
  IF AuthErrorsIs(e, "UNKNOWN_ACCOUNT")
    THEN [info |-> markExpired(i), modelError |-> mErr,
          log |-> toError("UNKNOWN_ACCOUNT_VERIFICATION")]
  ELSE IF AuthErrorsIs(e, "INVALID_VERIFICATION_CODE")
          \/ AuthErrorsIs(e, "INVALID_PARAMETER")
    THEN IF ~isSignUp(mType)
           THEN [info |-> markUsed(i), modelError |-> mErr,
                 log |-> toError("REUSED_SIGNIN_VERIFICATION_CODE")]
           ELSE [info |-> markDamaged(i), modelError |-> mErr,
                 log |-> toError("DAMAGED_VERIFICATION_LINK")]
  ELSE [info |-> i, modelError |-> e, log |-> e]

\* as _handleVerificationErrors, but INVALID_PARAMETER is not among the
\* errors of a damaged link and is displayed as it is
handleWithoutInvalidParameter(e, i, mType, mErr) ==
  IF AuthErrorsIs(e, "UNKNOWN_ACCOUNT")
    THEN [info |-> markExpired(i), modelError |-> mErr,
          log |-> toError("UNKNOWN_ACCOUNT_VERIFICATION")]
  ELSE IF AuthErrorsIs(e, "INVALID_VERIFICATION_CODE")
    THEN IF isSignIn(mType)
           THEN [info |-> markUsed(i), modelError |-> mErr,
                 log |-> toError("REUSED_SIGNIN_VERIFICATION_CODE")]
           ELSE [info |-> markDamaged(i), modelError |-> mErr,
                 log |-> toError("DAMAGED_VERIFICATION_LINK")]
  ELSE [info |-> i, modelError |-> e, log |-> e]

\* _handleVerificationErrors: the marks, the model's error and the logged
\* error it leaves
handleVerificationErrors(e, i, mType, mErr) ==
  IF AuthErrorsIs(e, "UNKNOWN_ACCOUNT")
    THEN [info |-> markExpired(i), modelError |-> mErr,
          log |-> toError("UNKNOWN_ACCOUNT_VERIFICATION")]
  ELSE IF AuthErrorsIs(e, "INVALID_VERIFICATION_CODE")
          \/ AuthErrorsIs(e, "INVALID_PARAMETER")
    THEN IF isSignIn(mType)
           THEN [info |-> markUsed(i), modelError |-> mErr,
                 log |-> toError("REUSED_SIGNIN_VERIFICATION_CODE")]
           ELSE [info |-> markDamaged(i), modelError |-> mErr,
                 log |-> toError("DAMAGED_VERIFICATION_LINK")]
  ELSE [info |-> i, modelError |-> e, log |-> e]

\* as abortsBeforeRender, but the validity of the link is not checked
abortsNever(p, i) == FALSE

\* beforeRender aborts, returning true, when the verification info is not valid
abortsBeforeRender(p, i) == ~isValid(p, i)

\* as failHandlerFor, but the last .fail is attached before .then, so that
\* it follows user.completeAccountSignUp alone
failHandlerBeforeThen(step) ==
  IF step = "logAndAbsorb" THEN "handleVerificationErrors" ELSE "rejected"

\* the handler a rejection of the chain's step reaches: the last .fail of
\* beforeRender follows every step
failHandlerFor(step) == "handleVerificationErrors"

\* as _hasResendSessionToken, but the sessionToken is cached by initialize
hasSessionTokenAtInit(cachedEmail, tok, atInit) == atInit

\* _hasResendSessionToken: user.getAccountByEmail(this._email).get('sessionToken'),
\* read from the registry as it is now; what the registry held at
\* initialization (atInit) is not read
hasResendSessionToken(cachedEmail, tok, atInit) == cachedEmail \in tok

\* _canResend
canResend(cachedEmail, tok, atInit, mType) ==
  hasResendSessionToken(cachedEmail, tok, atInit) /\ isSignUp(mType)

\* context()
context ==
  [canResend |-> canResend(email, tokens, tokenAtInit, modelType),
   error |-> modelError,
   isLinkDamaged |-> ~isValid(params, info),
   isLinkExpired |-> isExpired(info),
   isLinkUsed |-> isUsed(info)]

Call(op) == [op |-> op, account |-> "this._account"]
Event(name) == [op |-> name, account |-> None]

----------------------------------------------------------------------------
(* The state after the view's construction.                                *)

ViewInit ==
  /\ pc = "constructed"
  /\ params \in [code : ParamShapes, uid : ParamShapes, type : LinkTypes,
                 resume : ResumeTokens]
  /\ info = NoMarks
  \* the view is created for one of the verification reasons it has a broker
  \* method for, whatever the link's 'type' parameter says
  /\ modelType \in {SIGN_UP, SIGN_IN, SECONDARY_EMAIL_VERIFIED}
  /\ modelError = NoError
  \* initialize: the stored account of the uid, or the default account with
  \* the link's uid set on it
  /\ account \in [uid : {params.uid}, email : {None, "a@a.com"}]
  /\ email = account.email
  /\ tokens \in SUBSET Emails
  /\ tokenAtInit = (email \in tokens)
  /\ err = NoError
  /\ trace = << >>
  /\ logged = << >>
  /\ handled = << >>
  /\ outcome = [completeAccountSignUp |-> Pending, setAccount |-> Pending, broker |-> Pending]
  /\ returned = None
  /\ rendered = FALSE

----------------------------------------------------------------------------
(* CompleteSignUpView.beforeRender and its promise chain.                  *)

\* beforeRender, up to the call of user.completeAccountSignUp
BeforeRender ==
  /\ pc = "constructed"
  /\ IF abortsBeforeRender(params, info)
       THEN /\ logged' = Append(logged, toError("DAMAGED_VERIFICATION_LINK"))
            /\ returned' = "true"
            /\ pc' = "returned"
            /\ UNCHANGED <<account, trace>>
       ELSE /\ account' = populateFromStringifiedResumeToken(account, params.resume)
            /\ trace' = trace \o <<Call("populateFromStringifiedResumeToken"),
                                   Call("completeAccountSignUp")>>
            /\ returned' = "promise"
            /\ pc' = "completeAccountSignUp"
            /\ UNCHANGED logged
  /\ UNCHANGED <<params, info, modelType, modelError, email, tokens, tokenAtInit,
                 err, handled, outcome, rendered>>
  /\ UNCHANGED senderVars
  /\ UNCHANGED resendVars

\* the promise of user.completeAccountSignUp settles
CompleteAccountSignUpSettles ==
  /\ pc = "completeAccountSignUp"
  /\ \E o \in {Ok} \cup RemoteErrors :
       /\ outcome' = [outcome EXCEPT !.completeAccountSignUp = o]
       /\ IF o = Ok
            THEN pc' = "notifyBrokerAndComplete" /\ err' = NoError
            ELSE pc' = "logAndAbsorb" /\ err' = o
  /\ UNCHANGED <<params, info, modelType, modelError, account, email, tokens,
                 tokenAtInit, trace, logged, handled, returned, rendered>>
  /\ UNCHANGED senderVars
  /\ UNCHANGED resendVars

\* .fail((err) => this._logAndAbsorbMarketingClientErrors(err))
LogAndAbsorbMarketingClientErrors ==
  /\ pc = "logAndAbsorb"
  /\ IF logAndAbsorbMarketingClientErrors(err)
       THEN /\ logged' = Append(logged, err)
            /\ err' = NoError
            /\ pc' = "notifyBrokerAndComplete"
       ELSE /\ pc' = failHandlerFor("logAndAbsorb")
            /\ UNCHANGED <<logged, err>>
  /\ UNCHANGED <<params, info, modelType, modelError, account, email, tokens,
                 tokenAtInit, trace, handled, outcome, returned, rendered>>
  /\ UNCHANGED senderVars
  /\ UNCHANGED resendVars

\* .then(() => this._notifyBrokerAndComplete(account)), up to user.setAccount
NotifyBrokerAndComplete ==
  /\ pc = "notifyBrokerAndComplete"
  /\ trace' = trace \o <<Event("verification.success"), Call("setAccount")>>
  /\ pc' = "setAccount"
  /\ UNCHANGED <<params, info, modelType, modelError, account, email, tokens,
                 tokenAtInit, err, logged, handled, outcome, returned, rendered>>
  /\ UNCHANGED senderVars
  /\ UNCHANGED resendVars

\* the promise of user.setAccount settles
SetAccountSettles ==
  /\ pc = "setAccount"
  /\ \E o \in {Ok} \cup RemoteErrors :
       /\ outcome' = [outcome EXCEPT !.setAccount = o]
       /\ IF o = Ok
            THEN pc' = "invokeBrokerMethod" /\ err' = NoError
            ELSE pc' = failHandlerFor("setAccount") /\ err' = o
  /\ UNCHANGED <<params, info, modelType, modelError, account, email, tokens,
                 tokenAtInit, trace, logged, handled, returned, rendered>>
  /\ UNCHANGED senderVars
  /\ UNCHANGED resendVars

\* the callback of setAccount: _getBrokerMethod and invokeBrokerMethod
InvokeBrokerMethod ==
  /\ pc = "invokeBrokerMethod"
  /\ IF getBrokerMethod(modelType) = "undefined"
       THEN \* this.broker[undefined] is not a function
            /\ err' = TypeError
            /\ pc' = failHandlerFor("invokeBrokerMethod")
            /\ UNCHANGED trace
       ELSE /\ trace' = Append(trace, Call(getBrokerMethod(modelType)))
            /\ pc' = "broker"
            /\ UNCHANGED err
  /\ UNCHANGED <<params, info, modelType, modelError, account, email, tokens,
                 tokenAtInit, logged, handled, outcome, returned, rendered>>
  /\ UNCHANGED senderVars
  /\ UNCHANGED resendVars

\* the promise of the broker method settles; a broker that navigates away
\* returns a promise that never settles
BrokerSettles ==
  /\ pc = "broker"
  /\ \E o \in {Ok, Halt} \cup RemoteErrors :
       /\ outcome' = [outcome EXCEPT !.broker = o]
       /\ IF o = Ok THEN pc' = "resolved" /\ err' = NoError
          ELSE IF o = Halt THEN pc' = "halted" /\ err' = NoError
          ELSE pc' = failHandlerFor("broker") /\ err' = o
  /\ UNCHANGED <<params, info, modelType, modelError, account, email, tokens,
                 tokenAtInit, trace, logged, handled, returned, rendered>>
  /\ UNCHANGED senderVars
  /\ UNCHANGED resendVars

\* .fail((err) => this._handleVerificationErrors(err))
HandleVerificationErrors ==
  /\ pc = "handleVerificationErrors"
  /\ LET r == handleVerificationErrors(err, info, modelType, modelError) IN
       /\ info' = r.info
       /\ modelError' = r.modelError
       /\ logged' = Append(logged, r.log)
  /\ handled' = Append(handled, [err |-> err, info |-> info, modelError |-> modelError])
  /\ err' = NoError
  /\ pc' = "resolved"
  /\ UNCHANGED <<params, modelType, account, email, tokens, tokenAtInit, trace,
                 outcome, returned, rendered>>
  /\ UNCHANGED senderVars
  /\ UNCHANGED resendVars

\* BaseView.render goes on to render the template unless beforeRender gave false
Render ==
  /\ pc \in {"returned", "resolved"}
  /\ ~rendered
  /\ rendered' = TRUE
  /\ UNCHANGED <<pc, params, info, modelType, modelError, account, email, tokens,
                 tokenAtInit, err, trace, logged, handled, outcome, returned>>
  /\ UNCHANGED senderVars
  /\ UNCHANGED resendVars

\* an account of this browser gains a sessionToken (a sign-up in this
\* browser) or loses it (a sign-out), at any time
SessionTokenChanges ==
  /\ \E e \in Emails : tokens' = IF e \in tokens THEN tokens \ {e} ELSE tokens \cup {e}
  /\ UNCHANGED <<pc, params, info, modelType, modelError, account, email,
                 tokenAtInit, err, trace, logged, handled, outcome, returned, rendered>>
  /\ UNCHANGED senderVars
  /\ UNCHANGED resendVars

ViewNext ==
  \/ BeforeRender
  \/ CompleteAccountSignUpSettles
  \/ LogAndAbsorbMarketingClientErrors
  \/ NotifyBrokerAndComplete
  \/ SetAccountSettles
  \/ InvokeBrokerMethod
  \/ BrokerSettles
  \/ HandleVerificationErrors
  \/ Render
  \/ SessionTokenChanges

----------------------------------------------------------------------------
(* FxDesktopV1Sender.                                                      *)

MaxSends == 2

\* a window whose dispatchEvent works, and one whose dispatchEvent throws
Windows == {"window", "brokenWindow"}
Commands == {"login", "session_status"}
Datas == {"data1", "data2"}
MessageIds == {"id1", "id2"}

\* as createEvent, but the messageId travels in the event's detail
createEventWithMessageId(win, command, data, messageId) ==
  [type |-> "FirefoxAccountsCommand",
   detail |-> [bubbles |-> TRUE, command |-> command, data |-> data,
               messageId |-> messageId]]

\* createEvent(win, command, data, messageId)
createEvent(win, command, data, messageId) ==
  [type |-> "FirefoxAccountsCommand",
   detail |-> [bubbles |-> TRUE, command |-> command, data |-> data]]

\* dispatchCommand throws when there is no window to build the event with,
\* or when the window's dispatchEvent throws
dispatchThrows(win) == win \notin Windows \/ win = "brokenWindow"

\* the event dispatchCommand posts on the window
dispatchCommand(win, i, command, data, messageId) ==
  [window |-> win, send |-> i, event |-> createEvent(win, command, data, messageId)]

\* the first send whose callback has not run: callbacks run in the order
\* they were scheduled
FirstPending == CHOOSE i \in 1..Len(sends) :
                  /\ sends[i].promise = "pending"
                  /\ \A j \in 1..(i - 1) : sends[j].promise # "pending"

\* initialize(options)
SenderInitialize ==
  /\ senderWindow = "uninitialized"
  /\ \E w \in Windows \cup {"undefined"} : senderWindow' = w
  /\ UNCHANGED <<sends, windowEvents>>
  /\ UNCHANGED viewVars
  /\ UNCHANGED resendVars

\* send(command, data, messageId), up to the return of its promise
Send ==
  /\ Len(sends) < MaxSends
  /\ \E c \in Commands, d \in Datas, m \in MessageIds :
       sends' = Append(sends, [command |-> c, data |-> d, messageId |-> m,
                               promise |-> "pending"])
  \* p().then(...) only schedules the dispatch: nothing is posted yet
  /\ UNCHANGED <<senderWindow, windowEvents>>
  /\ UNCHANGED viewVars
  /\ UNCHANGED resendVars

\* the callback given to p().then: dispatchCommand, which settles the promise
DispatchCommand ==
  /\ \E i \in 1..Len(sends) : sends[i].promise = "pending"
  /\ LET i == FirstPending
         s == sends[i] IN
       IF dispatchThrows(senderWindow)
         THEN /\ sends' = [sends EXCEPT ![i].promise = "rejected"]
              /\ UNCHANGED windowEvents
         ELSE /\ windowEvents' = Append(windowEvents,
                     dispatchCommand(senderWindow, i, s.command, s.data, s.messageId))
              /\ sends' = [sends EXCEPT ![i].promise = "resolved"]
  /\ UNCHANGED senderWindow
  /\ UNCHANGED viewVars
  /\ UNCHANGED resendVars

SenderNext ==
  \/ SenderInitialize
  \/ Send
  \/ DispatchCommand

\* the state after the sender's construction
SenderInit ==
  /\ senderWindow = "uninitialized"
  /\ sends = << >>
  /\ windowEvents = << >>

\* one view, left as constructed, beside the sender
ViewAside ==
  /\ ViewInit
  /\ params = [code |-> "valid", uid |-> "valid", type |-> None, resume |-> None]
  /\ modelType = SIGN_UP
  /\ account.email = None
  /\ tokens = {}

----------------------------------------------------------------------------
(* CompleteSignUpView.resend.                                              *)

MaxResends == 2

\* as the .fail handler of resend, but every error navigates to 'signup'
resendNavigatesOnEveryError(e) == "navigate"

\* the .fail handler of resend: navigate to 'signup' on INVALID_TOKEN, and
\* throw any other error again
resendFailHandler(e) ==
  IF AuthErrorsIs(e, "INVALID_TOKEN") THEN "navigate" ELSE "rethrow"

\* the state after construction: resend was not called
ResendInit ==
  /\ resends = << >>
  /\ navigations = << >>

\* resend(), up to the call of account.retrySignUp on the account that
\* user.getAccountByEmail(this._email) gives
Resend ==
  /\ Len(resends) < MaxResends
  /\ resends' = Append(resends, [account |-> email, retrySignUp |-> 1,
                                 outcome |-> Pending, promise |-> "pending",
                                 reason |-> NoError])
  /\ UNCHANGED navigations
  /\ UNCHANGED viewVars
  /\ UNCHANGED senderVars

\* the promise of account.retrySignUp settles; when it resolves the .fail
\* handler is passed over and the promise of resend resolves
RetrySignUpSettles ==
  /\ \E i \in 1..Len(resends), o \in {Ok} \cup RemoteErrors :
       /\ resends[i].outcome = Pending
       /\ resends' = [resends EXCEPT ![i].outcome = o,
                                     ![i].promise = IF o = Ok THEN "resolved" ELSE "pending"]
  /\ UNCHANGED navigations
  /\ UNCHANGED viewVars
  /\ UNCHANGED senderVars

\* the .fail handler of resend runs on the error of retrySignUp
ResendFails ==
  /\ \E i \in 1..Len(resends) :
       /\ resends[i].outcome \in RemoteErrors
       /\ resends[i].promise = "pending"
       /\ IF resendFailHandler(resends[i].outcome) = "navigate"
            THEN /\ navigations' = Append(navigations,
                        [url |-> "signup", error |-> resends[i].outcome, resend |-> i])
                 /\ resends' = [resends EXCEPT ![i].promise = "resolved"]
            ELSE /\ resends' = [resends EXCEPT ![i].promise = "rejected",
                                               ![i].reason = resends[i].outcome]
                 /\ UNCHANGED navigations
  /\ UNCHANGED viewVars
  /\ UNCHANGED senderVars

\* resend beside the accounts of this browser, which change at any time
ResendNext ==
  \/ Resend
  \/ RetrySignUpSettles
  \/ ResendFails
  \/ SessionTokenChanges

\* the view of a valid sign-up link, left as constructed, beside resend
ResendSpecInit ==
  /\ ViewInit
  /\ params = [code |-> "valid", uid |-> "valid", type |-> None, resume |-> None]
  /\ modelType = SIGN_UP
  /\ SenderInit
  /\ ResendInit

ResendSpec == ResendSpecInit /\ [][ResendNext]_vars

Init == ViewInit /\ SenderInit /\ ResendInit
Next == ViewNext
Spec == Init /\ [][Next]_vars

SenderSpecInit == ViewAside /\ SenderInit /\ ResendInit
SenderSpec == SenderSpecInit /\ [][SenderNext]_vars

----------------------------------------------------------------------------
(* Vocabulary of the properties.                                           *)

Last(seq) == seq[Len(seq)]
IsPrefix(a, b) == Len(a) <= Len(b) /\ \A k \in 1..Len(a) : a[k] = b[k]
InTrace(op) == \E k \in 1..Len(trace) : trace[k].op = op

BrokerMethodNames ==
  {"afterCompleteSignUp", "afterCompleteSignIn", "afterCompleteAddSecondaryEmail"}

\* the calls of a completion nothing blocks, ending with the broker method m
FullTrace(m) ==
  <<Call("populateFromStringifiedResumeToken"), Call("completeAccountSignUp"),
    Event("verification.success"), Call("setAccount"), Call(m)>>

\* the link's parameters validate
ParamsValid == params.code = "valid" /\ params.uid = "valid"

\* the error that fails the completion chain: the first failure that is not
\* an absorbed marketing-email error
ChainError ==
  IF outcome.completeAccountSignUp \in RemoteErrors
       /\ ~MarketingEmailErrorsCreated(outcome.completeAccountSignUp)
    THEN outcome.completeAccountSignUp
  ELSE IF outcome.setAccount \in RemoteErrors THEN outcome.setAccount
  ELSE IF outcome.broker \in RemoteErrors THEN outcome.broker
  ELSE NoError

\* _handleVerificationErrors has run on the error named `name`
Handled(name) == Len(handled) = 1 /\ AuthErrorsIs(handled[1].err, name)

----------------------------------------------------------------------------
\* C1: when user.completeAccountSignUp fails with an error created by the
\* marketing-email client, the error is logged and nothing else: the chain goes
\* on to trigger 'verification.success', call user.setAccount and, once
\* setAccount resolved, invoke the broker method; as long as no later step
\* fails, no mark is set on the link, no error is set on the model and
\* _handleVerificationErrors does not run.
C1_MarketingErrorOnlyLogged ==
  (MarketingEmailErrorsCreated(outcome.completeAccountSignUp) /\ pc # "logAndAbsorb") =>
    /\ logged # << >>
    /\ logged[1] = outcome.completeAccountSignUp
    /\ pc # "notifyBrokerAndComplete" =>
         /\ Len(trace) >= 4
         /\ trace[3] = Event("verification.success")
         /\ trace[4] = Call("setAccount")
    /\ (outcome.setAccount = Ok /\ pc # "invokeBrokerMethod") =>
         /\ Len(trace) = 5
         /\ trace[5].op \in BrokerMethodNames
    /\ (outcome.setAccount \in {Pending, Ok} /\ outcome.broker \in {Pending, Ok, Halt}) =>
         /\ info = NoMarks
         /\ modelError = NoError
         /\ handled = << >>
         /\ Len(logged) = 1
         /\ pc # "rejected"

C1_Witness ==
  /\ MarketingEmailErrorsCreated(outcome.completeAccountSignUp)
  /\ outcome.broker = Ok
  /\ pc = "resolved"
  /\ Len(trace) = 5

\* C2: when the chain fails with UNKNOWN_ACCOUNT, _handleVerificationErrors
\* marks the link expired, so that context().isLinkExpired is true afterwards,
\* logs UNKNOWN_ACCOUNT_VERIFICATION and not the original error, and marks the
\* link neither used nor damaged.
C2_UnknownAccountExpiresLink ==
  Handled("UNKNOWN_ACCOUNT") =>
    /\ context.isLinkExpired
    /\ Last(logged) = toError("UNKNOWN_ACCOUNT_VERIFICATION")
    /\ \A k \in 1..Len(logged) : logged[k] # handled[1].err
    /\ context.isLinkUsed = handled[1].info.used
    /\ context.isLinkDamaged = handled[1].info.damaged
    /\ ~context.isLinkUsed
    /\ ~context.isLinkDamaged

C2_Witness ==
  /\ Handled("UNKNOWN_ACCOUNT")
  /\ outcome.setAccount = AuthError("UNKNOWN_ACCOUNT")
  /\ rendered
  /\ context.isLinkExpired

\* C3: when the chain fails with INVALID_VERIFICATION_CODE or INVALID_PARAMETER,
\* the link is marked used and REUSED_SIGNIN_VERIFICATION_CODE is logged if and
\* only if the verification is a sign-in; otherwise the link is marked damaged
\* and DAMAGED_VERIFICATION_LINK is logged. Exactly one of the two marks is set
\* and the link is not marked expired.
C3_InvalidCodeUsedOrDamaged ==
  (Handled("INVALID_VERIFICATION_CODE") \/ Handled("INVALID_PARAMETER")) =>
    /\ info.used <=> isSignIn(modelType)
    /\ info.damaged <=> ~isSignIn(modelType)
    /\ info.used # info.damaged
    /\ Last(logged) = toError("REUSED_SIGNIN_VERIFICATION_CODE") <=> isSignIn(modelType)
    /\ Last(logged) = toError("DAMAGED_VERIFICATION_LINK") <=> ~isSignIn(modelType)
    /\ info.expired = handled[1].info.expired
    /\ ~info.expired

C3_Witness ==
  /\ Handled("INVALID_PARAMETER")
  /\ isSignIn(modelType)
  /\ info.used
  /\ ~info.damaged

\* C4: an error reaching _handleVerificationErrors that is none of
\* UNKNOWN_ACCOUNT, INVALID_VERIFICATION_CODE, INVALID_PARAMETER is displayed as
\* it is: the model's 'error' is that same error, that same error is logged and
\* the link's marks are left as they were. For the three named errors the
\* model's 'error' is left as it was, so it is set in this case only.
C4_OtherErrorsDisplayedAsIs ==
  /\ Len(handled) <= 1
  /\ (Len(handled) = 1 /\ ~Handled("UNKNOWN_ACCOUNT")
        /\ ~Handled("INVALID_VERIFICATION_CODE") /\ ~Handled("INVALID_PARAMETER")) =>
       /\ modelError = handled[1].err
       /\ Last(logged) = handled[1].err
       /\ info = handled[1].info
  /\ (Handled("UNKNOWN_ACCOUNT") \/ Handled("INVALID_VERIFICATION_CODE")
        \/ Handled("INVALID_PARAMETER")) =>
       /\ modelError = handled[1].modelError
       /\ modelError = NoError
  /\ handled = << >> => modelError = NoError

C4_Witness ==
  /\ Len(handled) = 1
  /\ handled[1].err = AuthError("UNEXPECTED_ERROR")
  /\ modelError = AuthError("UNEXPECTED_ERROR")
  /\ info = NoMarks

\* the first failure of a step of the chain, absorbed or not
FirstError ==
  IF outcome.completeAccountSignUp \in RemoteErrors THEN outcome.completeAccountSignUp
  ELSE IF outcome.setAccount \in RemoteErrors THEN outcome.setAccount
  ELSE IF outcome.broker \in RemoteErrors THEN outcome.broker
  ELSE NoError

\* C5, as claimed: with a valid link the promise of beforeRender never
\* rejects, and every error of user.completeAccountSignUp, user.setAccount or
\* the broker method, whatever the error, goes through
\* _handleVerificationErrors before the view renders.
C5_EveryErrorHandled ==
  /\ pc # "rejected"
  /\ (FirstError # NoError /\ pc \notin {"logAndAbsorb", "handleVerificationErrors"}) =>
       /\ Len(handled) = 1
       /\ handled[1].err = FirstError

\* C5, amended: with a valid link the promise of beforeRender never rejects:
\* whichever of user.completeAccountSignUp, user.setAccount and the broker
\* method fails, also after 'verification.success' was triggered, the error
\* goes through _handleVerificationErrors, the promise resolves and the view
\* can render; the one exception is a marketing-email error of
\* user.completeAccountSignUp, which is absorbed and never reaches
\* _handleVerificationErrors.
C5_ErrorsCaughtAtViewBoundary ==
  /\ pc # "rejected"
  /\ (ChainError # NoError /\ pc \notin {"logAndAbsorb", "handleVerificationErrors"}) =>
       /\ pc = "resolved"
       /\ Len(handled) = 1
       /\ handled[1].err = ChainError
       /\ rendered \/ ENABLED Render
  /\ ChainError = NoError => handled = << >>

C5_Witness ==
  /\ InTrace("verification.success")
  /\ outcome.broker \in RemoteErrors
  /\ Len(handled) = 1
  /\ handled[1].err = outcome.broker
  /\ rendered

\* the events posted for the send numbered i
EventsOf(i) == {k \in 1..Len(windowEvents) : windowEvents[k].send = i}

\* C6: send(command, data, messageId) posts exactly one custom event named
\* 'FirefoxAccountsCommand' on the window given to initialize, whose detail
\* holds the given command and data and bubbles: true; the messageId is
\* ignored, so two sends that differ in messageId alone post the same event.
\* The event is posted after send returned its promise and before the promise
\* resolves, and a failing dispatch rejects the promise: send itself posts
\* nothing and returns a pending promise.
C6_SendPostsOneEvent ==
  /\ [](/\ \A k \in 1..Len(windowEvents) :
             LET e == windowEvents[k] IN
               /\ e.send \in 1..Len(sends)
               /\ e.window = senderWindow
               /\ e.event = [type |-> "FirefoxAccountsCommand",
                             detail |-> [bubbles |-> TRUE,
                                         command |-> sends[e.send].command,
                                         data |-> sends[e.send].data]]
        /\ \A i \in 1..Len(sends) :
             Cardinality(EventsOf(i)) = IF sends[i].promise = "resolved" THEN 1 ELSE 0
        /\ \A k, l \in 1..Len(windowEvents) :
             (/\ sends[windowEvents[k].send].command = sends[windowEvents[l].send].command
              /\ sends[windowEvents[k].send].data = sends[windowEvents[l].send].data)
               => windowEvents[k].event = windowEvents[l].event)
  /\ [][/\ Len(sends') > Len(sends) =>
             /\ windowEvents' = windowEvents
             /\ Len(sends') = Len(sends) + 1
             /\ Last(sends').promise = "pending"
             /\ \A i \in 1..Len(sends) : sends'[i] = sends[i]
        /\ windowEvents' # windowEvents =>
             \E i \in 1..Len(sends) :
               /\ sends[i].promise = "pending"
               /\ sends'[i].promise = "resolved"
               /\ Len(windowEvents') = Len(windowEvents) + 1
               /\ Last(windowEvents').send = i
               /\ \A k \in 1..Len(windowEvents) : windowEvents'[k] = windowEvents[k]
        /\ \A i \in 1..Len(sends) :
             (sends[i].promise = "pending" /\ sends'[i].promise = "rejected") =>
               /\ dispatchThrows(senderWindow)
               /\ windowEvents' = windowEvents
        /\ \A i \in 1..Len(sends) :
             sends[i].promise # "pending" => sends'[i] = sends[i]]_vars

C6_Witness ==
  /\ Len(sends) = 2
  /\ sends[1].command = sends[2].command
  /\ sends[1].data = sends[2].data
  /\ sends[1].messageId # sends[2].messageId
  /\ sends[1].promise = "resolved"
  /\ sends[2].promise = "resolved"
  /\ Len(windowEvents) = 2
  /\ windowEvents[1].event = windowEvents[2].event

\* C7: the work of a completion is sequenced and never retried: the calls made
\* are always a beginning of the sequence populate, user.completeAccountSignUp,
\* 'verification.success', user.setAccount, one broker method, so each happens
\* at most once and in this order; completeAccountSignUp is called once a
\* valid link is being completed; 'verification.success' and setAccount follow
\* only its success or a marketing-email error; the broker method follows only
\* the success of setAccount; and after any other failure of
\* completeAccountSignUp none of them ever happens.
C7_SequencedNeverRetried ==
  /\ \E m \in BrokerMethodNames : IsPrefix(trace, FullTrace(m))
  /\ returned = "promise" => Len(trace) >= 2
  /\ Len(trace) \in {0, 2, 4, 5}
  /\ Len(trace) >= 4 <=>
       /\ \/ outcome.completeAccountSignUp = Ok
          \/ MarketingEmailErrorsCreated(outcome.completeAccountSignUp)
       /\ pc \notin {"logAndAbsorb", "notifyBrokerAndComplete"}
  /\ Len(trace) = 5 <=> (outcome.setAccount = Ok /\ pc # "invokeBrokerMethod")
  /\ (outcome.completeAccountSignUp \in RemoteErrors
        /\ ~MarketingEmailErrorsCreated(outcome.completeAccountSignUp)) =>
       /\ Len(trace) = 2
       /\ outcome.setAccount = Pending
       /\ outcome.broker = Pending

C7_Witness ==
  /\ MarketingEmailErrorsCreated(outcome.completeAccountSignUp)
  /\ outcome.setAccount = Ok
  /\ outcome.broker = Halt
  /\ trace = FullTrace("afterCompleteSignIn")

\* C8: when the verification info built from the link's parameters is not
\* valid, beforeRender aborts before anything else: it logs
\* DAMAGED_VERIFICATION_LINK and returns true; the account is never populated
\* from the resume token, user.completeAccountSignUp is never called,
\* 'verification.success' is never triggered, no broker method is invoked, and
\* context().isLinkDamaged is true.
C8_InvalidLinkAborts ==
  ~ParamsValid =>
    /\ trace = << >>
    /\ account.email = email
    /\ outcome.completeAccountSignUp = Pending
    /\ pc \in {"constructed", "returned"}
    /\ context.isLinkDamaged
    /\ pc = "returned" =>
         /\ returned = "true"
         /\ logged = <<toError("DAMAGED_VERIFICATION_LINK")>>
         /\ handled = << >>

C8_Witness ==
  /\ ~ParamsValid
  /\ params.resume # None
  /\ pc = "returned"
  /\ rendered
  /\ context.isLinkDamaged

\* the broker method that completes the kind of verification `type` names
MethodOfType(type) ==
  CASE type = SIGN_UP -> "afterCompleteSignUp"
    [] type = SIGN_IN -> "afterCompleteSignIn"
    [] type = SECONDARY_EMAIL_VERIFIED -> "afterCompleteAddSecondaryEmail"
    [] OTHER -> "undefined"

\* C9, as claimed: the broker method invoked is the one that matches the
\* 'type' parameter of the verification link.
C9_MethodMatchesLinkType ==
  Len(trace) = 5 => trace[5].op = MethodOfType(params.type)

\* C9, amended: the broker method invoked is the one that matches the 'type'
\* of the view's model, whatever the 'type' parameter of the link:
\* afterCompleteSignUp for a sign-up, afterCompleteSignIn for a sign-in,
\* afterCompleteAddSecondaryEmail for a secondary email; it is always one of
\* the three and it is invoked with the account that was passed to
\* user.completeAccountSignUp.
C9_MethodMatchesModelType ==
  /\ getBrokerMethod(modelType) \in BrokerMethodNames
  /\ Len(trace) = 5 =>
       /\ trace[5].op = MethodOfType(modelType)
       /\ trace[5].op \in BrokerMethodNames
       /\ trace[5].account = trace[2].account
       /\ trace[2].op = "completeAccountSignUp"

C9_Witness ==
  /\ Len(trace) = 5
  /\ modelType = SIGN_IN
  /\ params.type = SIGN_UP
  /\ trace[5].op = "afterCompleteSignIn"
  /\ outcome.broker = Ok

\* C10: context().canResend is true if and only if the account now registered
\* for the email cached by initialize holds a sessionToken and the verification
\* is a sign-up; it is false for every sign-in, so it is false whenever the
\* link is marked used; the sessionToken is read when the context is built,
\* not at initialization.
C10_CanResend ==
  /\ context.canResend <=> (email \in tokens /\ isSignUp(modelType))
  /\ isSignIn(modelType) => ~context.canResend
  /\ context.isLinkUsed => ~context.canResend
  /\ context.isLinkUsed => isSignIn(modelType)

C10_Witness ==
  /\ ~tokenAtInit
  /\ context.canResend
  /\ rendered
  /\ context.isLinkExpired

\* the navigations made for the resend numbered i
NavigationsOf(i) == {k \in 1..Len(navigations) : navigations[k].resend = i}

\* C11: resend calls retrySignUp exactly once on the account registered for
\* the cached email; when retrySignUp fails with INVALID_TOKEN the view
\* navigates to 'signup' with that error and the promise of resend does not
\* reject; when it fails with any other error nothing is navigated to and the
\* promise rejects with that same error; when it succeeds nothing is
\* navigated to and the promise resolves.
C11_Resend ==
  /\ \A k \in 1..Len(navigations) : navigations[k].resend \in 1..Len(resends)
  /\ \A i \in 1..Len(resends) :
       LET r == resends[i] IN
         /\ r.retrySignUp = 1
         /\ r.account = email
         /\ Cardinality(NavigationsOf(i)) <= 1
         /\ \A k \in NavigationsOf(i) :
              /\ navigations[k].url = "signup"
              /\ navigations[k].error = r.outcome
              /\ AuthErrorsIs(r.outcome, "INVALID_TOKEN")
         /\ (r.outcome \in RemoteErrors /\ ~AuthErrorsIs(r.outcome, "INVALID_TOKEN")
               /\ r.promise # "pending") =>
              /\ r.promise = "rejected"
              /\ r.reason = r.outcome
              /\ NavigationsOf(i) = {}
         /\ r.promise = "rejected" =>
              (r.outcome \in RemoteErrors /\ ~AuthErrorsIs(r.outcome, "INVALID_TOKEN"))
         /\ r.promise = "rejected" => r.reason = r.outcome
         /\ r.promise # "rejected" => r.reason = NoError
         /\ (AuthErrorsIs(r.outcome, "INVALID_TOKEN") /\ r.promise # "pending") =>
              /\ r.promise = "resolved"
              /\ Cardinality(NavigationsOf(i)) = 1
         /\ r.outcome = Ok => (r.promise = "resolved" /\ NavigationsOf(i) = {})
         /\ r.outcome = Pending => r.promise = "pending"

C11_Witness ==
  /\ Len(resends) = 2
  /\ AuthErrorsIs(resends[1].outcome, "INVALID_TOKEN")
  /\ resends[1].promise = "resolved"
  /\ resends[2].promise = "rejected"
  /\ resends[2].reason = AuthError("UNEXPECTED_ERROR")
  /\ Len(navigations) = 1
  /\ navigations[1].error = AuthError("INVALID_TOKEN")

====
